---- MODULE Spec2Model ----
(***************************************************************************)
(* A model of osm2od.py: the offset-curve generator (find_parallel), the   *)
(* lane layout that buildXML derives for one road, and the run of main():  *)
(* readOSM, the per-road loop of buildXML with its junction accumulation,  *)
(* the junction loop and the final write.                                  *)
(*                                                                         *)
(* Numbers.  The code computes in floating point with trigonometry; the    *)
(* model keeps every quantity exact and symbolic instead.  Node            *)
(* coordinates are integers.  A width is counted in half metres, so that   *)
(* lane_width/2.0 is an integer.  An offset point is the record            *)
(*   [lat, lng : the source node's coordinates,                            *)
(*    mag      : |width|, the nominal offset distance (half metres),       *)
(*    dir      : the vector the displacement is parallel to, as            *)
(*               <<d lat, d lng>>; for a mitred point the vector that the  *)
(*               code rotates, the rotation being given by turn,           *)
(*    turn     : <<>> for a butt end, <<v0, v>> (incoming and outgoing     *)
(*               planar vectors) for a mitred interior point]              *)
(* which stands for the point  node + scale * mag * unit(direction),       *)
(* scale = 1 for a butt end and 1/|sin(angle)| for a mitred point.         *)
(* A node of the road itself is the record with mag = 0.                   *)
(***************************************************************************)
EXTENDS Integers, Sequences, FiniteSets, TLC

VARIABLES pc, ways, roads, ri, sections, max_coord, junction_keys, junctions,
          ji, emitted, arg, ret

vars == <<pc, ways, roads, ri, sections, max_coord, junction_keys, junctions,
          ji, emitted, arg, ret>>

(***************************************************************************)
(* Bounds of the model.                                                    *)
(***************************************************************************)
MaxLen == 3          \* longest node sequence of a way
MaxRoads == 2        \* most ways in an input file
MaxCoord == 2        \* coordinates of a free-standing polyline are 0..MaxCoord
MaxLanes == 5        \* declared lane counts are -MaxLanes..MaxLanes
MaxMiterScale == 4   \* the cap the specification asks for (the code has none)

NodeIds == {1, 2, 3}

lane_width == 3      \* metres

\* A length in metres, in the model's unit (half metres).
HalfMetres(m) == 2 * m

Abs(x) == IF x < 0 THEN -x ELSE x
Sign(x) == IF x < 0 THEN -1 ELSE 1

SeqsUpTo(S, n) == UNION {[1..k -> S] : k \in 0..n}

NoRepeat(s) == \A i \in 1..(Len(s) - 1) : s[i] # s[i + 1]

(***************************************************************************)
(* Planar vectors.                                                         *)
(***************************************************************************)
Minus(a, b) == <<a[1] - b[1], a[2] - b[2]>>
Dot(a, b) == a[1] * b[1] + a[2] * b[2]
Det(a, b) == a[1] * b[2] - a[2] * b[1]

\* utm.from_latlon on a local unit grid: (easting, northing) = (lng, lat).
from_latlon(lat, lng) == <<lng, lat>>

\* utm.to_latlon: the inverse, (lat, lng) = (northing, easting).
to_latlon(easting, northing) == <<northing, easting>>

\* vector_angle: arctan2(det, dot) of the two unit vectors.  The angle is kept
\* as the pair it is the arctan2 of (scaling both by |v1||v2| > 0 leaves the
\* angle unchanged); det = dot = 0 is the NaN of a zero-length vector.
vector_angle(v1, v2) == [det |-> Det(v1, v2), dot |-> Dot(v1, v2)]

\* The loop body, lines 428-465: the point for points[i], i < Len(points).
ParallelPoint(points, i, width, left) ==
    LET p1 == from_latlon(points[i][1], points[i][2])
        p2 == from_latlon(points[i + 1][1], points[i + 1][2])
        v == Minus(p2, p1)
        g == to_latlon(p1[1], p1[2])
    IN  IF i # 1
        THEN \* lv = rotate_vector(v, -(pi + angle)/2), scaled_width =
             \* abs(width/sin(angle)); lp = p1 -/+ scaled_width * unit(lv)
             LET p0 == from_latlon(points[i - 1][1], points[i - 1][2])
                 v0 == Minus(p1, p0)
                 s == IF left THEN -1 ELSE 1
                 d == to_latlon(s * v[1], s * v[2])
             IN  [lat |-> g[1], lng |-> g[2], mag |-> Abs(width), dir |-> d,
                  turn |-> <<v0, v>>]
        ELSE \* lv = (v[1], -v[0]), scaled_width = width
             LET lv == <<v[2], -v[1]>>
                 k == IF left THEN -width ELSE width
                 d == to_latlon(Sign(k) * lv[1], Sign(k) * lv[2])
             IN  [lat |-> g[1], lng |-> g[2], mag |-> Abs(k), dir |-> d,
                  turn |-> <<>>]

\* The point for the final node, lines 468-475, added in the last iteration.
LastPoint(points, width, left) ==
    LET n == Len(points)
        p1 == from_latlon(points[n - 1][1], points[n - 1][2])
        p2 == from_latlon(points[n][1], points[n][2])
        v == Minus(p2, p1)
        lv == IF left THEN <<-v[2], v[1]>> ELSE <<v[2], -v[1]>>
        g == to_latlon(p2[1], p2[2])
        d == to_latlon(Sign(width) * lv[1], Sign(width) * lv[2])
    IN  [lat |-> g[1], lng |-> g[2], mag |-> Abs(width), dir |-> d, turn |-> <<>>]

find_parallel_no_last(road, width, left) ==
    LET points == [i \in 1..Len(road) |-> <<road[i].lat, road[i].lng>>]
    IN  [i \in 1..(IF Len(points) < 2 THEN 0 ELSE Len(points) - 1) |->
            ParallelPoint(points, i, width, left)]

find_parallel(road, width, left) ==
    LET points == [i \in 1..Len(road) |-> <<road[i].lat, road[i].lng>>]
        n == Len(points)
    IN  IF n < 2
        THEN <<>>
        ELSE [i \in 1..n |->
                IF i < n THEN ParallelPoint(points, i, width, left)
                         ELSE LastPoint(points, width, left)]

\* Whether the scale 1/|sin(angle)| that line 450 applies at a mitred point is
\* at most cap, angle = -(pi + theta)/2 and theta = arctan2(det, dot):
\* sin(angle)^2 = (1 + cos theta)/2 and cos theta = dot/sqrt(dot^2 + det^2), so
\* the scale is at most cap iff (cap^2 - 2) * sqrt(dot^2 + det^2) + cap^2 * dot
\* is at least 0.  A NaN (det = dot = 0) compares false.
ScaleAtMost(theta, cap) ==
    LET h == theta.dot * theta.dot + theta.det * theta.det
        c == cap * cap - 2
        b == cap * cap * theta.dot
    IN  /\ h # 0
        /\ \/ c >= 0 /\ b >= 0
           \/ c >= 0 /\ b < 0 /\ c * c * h >= b * b
           \/ c < 0 /\ b > 0 /\ b * b >= c * c * h

\* scaled_width <= cap * |width| at an offset point.
MagnitudeWithin(pt, cap) ==
    IF pt.turn = <<>> THEN cap >= 1
    ELSE ScaleAtMost(vector_angle(pt.turn[1], pt.turn[2]), cap)

(***************************************************************************)
(* The ingested graph: readNodes and readRoads.                            *)
(***************************************************************************)
\* The node table of the input file: every node id with its coordinates.
\* No three of them are collinear and no two differences coincide.
Node(id) == [id |-> id, lat |-> id, lng |-> id * id]

driveable_base ==
    {"motorway", "trunk", "primary", "secondary", "tertiary", "residential",
     "service", "living_street", "track", "road", "unclassified"}

driveable_link ==
    {"motorway_link", "trunk_link", "primary_link", "secondary_link",
     "tertiary_link", "residential_link", "service_link",
     "living_street_link", "track_link", "road_link", "unclassified_link"}

driveable == driveable_base \cup driveable_link

\* One way of the file as a Road: its tags become attributes, its nd
\* references are resolved against the node table.
RoadOf(w) ==
    [id |-> w.id,
     nodes |-> [i \in 1..Len(w.nds) |-> Node(w.nds[i])],
     hasLanes |-> w.hasLanes,
     lanes |-> w.lanes]

RECURSIVE readRoads(_)
readRoads(ws) ==
    IF ws = <<>> THEN <<>>
    ELSE LET rest == readRoads(Tail(ws))
         IN  IF Head(ws).highway \in driveable
             THEN <<RoadOf(Head(ws))>> \o rest
             ELSE rest

(***************************************************************************)
(* The lane layout of one road: the body of buildXML's road loop.          *)
(***************************************************************************)
\* A node of the road as a point: [n.lat, n.lng].
RawPoint(n) ==
    [lat |-> n.lat, lng |-> n.lng, mag |-> 0, dir |-> <<0, 0>>, turn |-> <<>>]

NodePoints(nodes) == [i \in 1..Len(nodes) |-> RawPoint(nodes[i])]

declared_lanes(r) == IF r.hasLanes THEN r.lanes ELSE 1

normalize_lanes_keep_odd(n) == IF n = 0 THEN 1 ELSE n

normalize_lanes(n) ==
    IF n > 1 /\ n % 2 # 0 THEN n - 1
    ELSE IF n = 0 THEN 1 ELSE n

num_lanes_of(r) == normalize_lanes(declared_lanes(r))

\* math.ceil(num_lanes/2): the number of iterations of the lane loop.
lane_rows(num_lanes) ==
    IF num_lanes <= 0 THEN -((-num_lanes) \div 2) ELSE (num_lanes + 1) \div 2

\* i*lane_width + lane_width/2, in half metres.
center_pos_inner(i) == HalfMetres(i * lane_width)

center_pos(i) == HalfMetres(i * lane_width) + HalfMetres(lane_width) \div 2

\* The width of the right lane's border, lines 263-266.
right_border_width_full(num_lanes, i) ==
    IF num_lanes = 1 THEN HalfMetres(lane_width)
    ELSE HalfMetres((i + 1) * lane_width)

right_border_width(num_lanes, i) ==
    IF num_lanes = 1 THEN HalfMetres(lane_width) \div 2
    ELSE HalfMetres((i + 1) * lane_width)

left_boundary_points(r) ==
    IF num_lanes_of(r) = 1 THEN NodePoints(r.nodes)
    ELSE find_parallel(r.nodes, (num_lanes_of(r) * HalfMetres(lane_width)) \div 2, TRUE)

right_boundary_points(r) ==
    IF num_lanes_of(r) = 1 THEN find_parallel(r.nodes, HalfMetres(lane_width), FALSE)
    ELSE find_parallel(r.nodes, (num_lanes_of(r) * HalfMetres(lane_width)) \div 2, FALSE)

center_nodes(r) ==
    IF num_lanes_of(r) > 1 THEN NodePoints(r.nodes)
    ELSE find_parallel(r.nodes, HalfMetres(lane_width) \div 2, TRUE)

right_lane(r, i) ==
    LET num_lanes == num_lanes_of(r)
    IN  [id |-> -(i + 1),
         direction |-> IF num_lanes = 1 THEN "bidirection" ELSE "forward",
         centerLine |-> IF num_lanes = 1 THEN NodePoints(r.nodes)
                        ELSE find_parallel(r.nodes, center_pos(i), FALSE),
         border |-> find_parallel(r.nodes, right_border_width(num_lanes, i), FALSE)]

left_lane(r, i) ==
    [id |-> i + 1,
     direction |-> "backward",
     centerLine |-> find_parallel(r.nodes, center_pos(i), TRUE),
     border |-> find_parallel(r.nodes, HalfMetres((i + 1) * lane_width), TRUE)]

\* The IndexError of lines 164-172 (a boundary shorter than the node list) and
\* of line 190 (r.nodes[0] of an empty node list).
BuildRaises(r) ==
    \/ Len(r.nodes) = 0
    \/ Len(left_boundary_points(r)) < Len(r.nodes)
    \/ Len(right_boundary_points(r)) < Len(r.nodes)

LaneSection(r) ==
    LET num_lanes == num_lanes_of(r)
        rows == lane_rows(num_lanes)
    IN  [id |-> r.id,
         num_lanes |-> num_lanes,
         leftBoundary |-> left_boundary_points(r),
         rightBoundary |-> right_boundary_points(r),
         center |-> center_nodes(r),
         right |-> [k \in 1..rows |-> right_lane(r, k - 1)],
         hasLeft |-> num_lanes > 1,
         left |-> IF num_lanes > 1 THEN [k \in 1..rows |-> left_lane(r, k - 1)]
                  ELSE <<>>]

(***************************************************************************)
(* Junctions: the accumulation of lines 335-343 and the loop of 345-377.   *)
(***************************************************************************)
\* Node equality: identity, and readRoads resolves every reference to the one
\* Node object of that id.
SameNode(a, b) == a.id = b.id

\* n in road.nodes
NodeIn(n, nodes) == \E m \in 1..Len(nodes) : SameNode(nodes[m], n)

\* r == road, line 336: roads are compared by identity, here their position
\* in the list of roads.
SameRoadNever(rix, qix) == FALSE

SameRoad(rix, qix) == rix = qix

\* junctions[n].update([r, road]), creating the key first when it is new.
\* J is [keys : the keys in insertion order, sets : node id -> set of roads].
AddIncident(J, n, rix, qix) ==
    LET isKey == n.id \in DOMAIN J.sets
        old == IF isKey THEN J.sets[n.id] ELSE {}
    IN  [keys |-> IF isKey THEN J.keys ELSE Append(J.keys, n),
         sets |-> [x \in DOMAIN J.sets \cup {n.id} |->
                      IF x = n.id THEN old \cup {rix, qix} ELSE J.sets[x]]]

\* for n in r.nodes, from position k on, against the road at qix.
RECURSIVE ScanNodes(_, _, _, _, _)
ScanNodes(J, rds, rix, qix, k) ==
    IF k > Len(rds[rix].nodes) THEN J
    ELSE LET n == rds[rix].nodes[k]
         IN  ScanNodes(IF NodeIn(n, rds[qix].nodes)
                       THEN AddIncident(J, n, rix, qix) ELSE J,
                       rds, rix, qix, k + 1)

\* for road in roads, from position qix on.
RECURSIVE ScanRoads(_, _, _, _)
ScanRoads(J, rds, rix, qix) ==
    IF qix > Len(rds) THEN J
    ELSE IF SameRoad(rix, qix) THEN ScanRoads(J, rds, rix, qix + 1)
    ELSE ScanRoads(ScanNodes(J, rds, rix, qix, 1), rds, rix, qix + 1)

\* r.nodes.index(j): the first position of j.
IndexOf(nodes, j) ==
    CHOOSE k \in 1..Len(nodes) :
        SameNode(nodes[k], j) /\ \A m \in 1..(k - 1) : ~SameNode(nodes[m], j)

LatLng(n) == <<n.lat, n.lng>>

\* The vectors that lines 363-377 append for one incident road r.
junction_vecs(r, j) ==
    LET n_i == IndexOf(r.nodes, j)
        p == LatLng(j)
    IN  IF n_i = 1
        THEN <<Minus(LatLng(r.nodes[2]), p)>>
        ELSE IF n_i = Len(r.nodes)
        THEN <<Minus(LatLng(r.nodes[Len(r.nodes) - 1]), p)>>
        ELSE LET p0 == LatLng(r.nodes[n_i - 1])
                 p1 == LatLng(r.nodes[n_i + 1])
             IN  <<<<p1[1] - p[1], p1[2] - p[2]>>,
                   <<p0[1] - p[1], p0[1] - p[1]>>>>

(***************************************************************************)
(* A run of main(): readOSM, then buildXML.                                *)
(*   pc = "main"       before readOSM                                      *)
(*        "buildXML"   in the road loop, about to handle roads[ri]         *)
(*        "junctions"  in the junction loop, ji junctions emitted          *)
(*        "written"    tree.write has run                                  *)
(*        "IndexError", "TypeError"  the run ended with that exception     *)
(* sections holds the ids of the roads whose <road> element was added, in  *)
(* order; the element's lane section is LaneSection of that road.          *)
(* max_coord is whether the bounding box has left its initial None.        *)
(* The junction outline (a fixed square around the node) is not modelled.  *)
(***************************************************************************)
WayChoices ==
    {[highway |-> "residential", nds |-> s, hasLanes |-> FALSE, lanes |-> 0] :
        s \in {t \in SeqsUpTo(NodeIds, MaxLen) : NoRepeat(t)}}
    \cup {[highway |-> "footway", nds |-> <<1, 2>>, hasLanes |-> FALSE, lanes |-> 0]}

Init ==
    /\ pc = "main"
    /\ \E k \in 0..MaxRoads : \E c \in [1..k -> WayChoices] :
          ways = [i \in 1..k |->
                    [id |-> i, highway |-> c[i].highway, nds |-> c[i].nds,
                     hasLanes |-> c[i].hasLanes, lanes |-> c[i].lanes]]
    /\ roads = <<>> /\ ri = 0 /\ sections = <<>>
    /\ max_coord = FALSE /\ junction_keys = <<>> /\ junctions = <<>>
    /\ ji = 0 /\ emitted = <<>>
    /\ arg = <<>> /\ ret = <<>>

\* nodes, roads = readOSM(filename), and buildXML up to its road loop.
ReadOSM ==
    /\ pc = "main"
    /\ roads' = readRoads(ways)
    /\ ri' = 1
    /\ pc' = IF roads' = <<>> THEN "junctions" ELSE "buildXML"
    /\ UNCHANGED <<ways, sections, max_coord, junction_keys, junctions, ji,
                   emitted, arg, ret>>

\* One iteration of the road loop, lines 104-343.
BuildRoad ==
    /\ pc = "buildXML"
    /\ ri <= Len(roads)
    /\ IF BuildRaises(roads[ri])
       THEN /\ pc' = "IndexError"
            /\ UNCHANGED <<ri, sections, max_coord, junction_keys, junctions>>
       ELSE LET J == ScanRoads([keys |-> junction_keys, sets |-> junctions],
                               roads, ri, 1)
            IN  /\ sections' = Append(sections, roads[ri].id)
                /\ max_coord' = (max_coord \/ center_nodes(roads[ri]) # <<>>)
                /\ junction_keys' = J.keys
                /\ junctions' = J.sets
                /\ ri' = ri + 1
                /\ pc' = IF ri = Len(roads) THEN "junctions" ELSE "buildXML"
    /\ UNCHANGED <<ways, roads, ji, emitted, arg, ret>>

\* One iteration of the junction loop, lines 345-377.
EmitJunctionBody ==
    /\ ji < Len(junction_keys)
    /\ LET j == junction_keys[ji + 1]
       IN  emitted' = Append(emitted,
              [id |-> ji, node |-> j,
               vecs |-> [r \in junctions[j.id] |-> junction_vecs(roads[r], j)]])
    /\ ji' = ji + 1
    /\ UNCHANGED <<pc, ways, roads, ri, sections, max_coord, junction_keys,
                   junctions, arg, ret>>

\* The junction loop run from inside the road loop (where every incident road
\* has the neighbour its vector needs).
EmitJunctionInRoadLoop ==
    /\ pc \in {"buildXML", "junctions"}
    /\ \A id \in DOMAIN junctions : \A r \in junctions[id] : Len(roads[r].nodes) >= 2
    /\ EmitJunctionBody

EmitJunction == pc = "junctions" /\ EmitJunctionBody

\* Lines 380-387: the header's bounding box, then tree.write.  format_coord
\* of a None (no road gave a centre point) raises TypeError.
WriteXML ==
    /\ pc = "junctions"
    /\ ji = Len(junction_keys)
    /\ pc' = IF max_coord THEN "written" ELSE "TypeError"
    /\ UNCHANGED <<ways, roads, ri, sections, max_coord, junction_keys,
                   junctions, ji, emitted, arg, ret>>

Next == ReadOSM \/ BuildRoad \/ EmitJunction \/ WriteXML

Spec == Init /\ [][Next]_vars

RoadsThrough(id) ==
    {i \in 1..Len(roads) : \E k \in 1..Len(roads[i].nodes) : roads[i].nodes[k].id = id}

\* C2: after junction detection a node is a junction key iff at least 2
\* distinct roads reference it, and its incident-road set is the set of the
\* roads whose node sequence contains it; a node that only one road
\* references, even more than once, is no junction.
C2_JunctionKeys ==
    pc \in {"junctions", "written"} =>
        /\ DOMAIN junctions = {junction_keys[k].id : k \in 1..Len(junction_keys)}
        /\ \A id \in NodeIds :
              /\ id \in DOMAIN junctions <=> Cardinality(RoadsThrough(id)) >= 2
              /\ id \in DOMAIN junctions => junctions[id] = RoadsThrough(id)

\* Node 1 is a junction of two roads, node 3 is referenced twice by one road
\* only and is no junction.
C2_Witness ==
    /\ pc = "written"
    /\ 1 \in DOMAIN junctions /\ Cardinality(junctions[1]) = 2
    /\ \E i \in 1..Len(roads) :
          /\ RoadsThrough(3) = {i}
          /\ Cardinality({k \in 1..Len(roads[i].nodes) : roads[i].nodes[k].id = 3}) = 2
    /\ 3 \notin DOMAIN junctions

\* C6: a road of fewer than 2 nodes is skipped and the run completes: it never
\* ends with that road's exception.
C6_ShortRoadSkipped ==
    (\E i \in 1..Len(roads) : Len(roads[i].nodes) < 2) =>
        pc \notin {"IndexError", "TypeError"}

\* C9: for every junction j and incident road r: one vector (second node - j)
\* when j is r's first node, one vector (second-to-last node - j) when j is
\* r's last node, otherwise two vectors, (successor - j) and
\* (predecessor - j), each <<latitude difference, longitude difference>>.
C9_DirectionVectors ==
    \A e \in 1..Len(emitted) : \A r \in DOMAIN emitted[e].vecs :
        LET nodes == roads[r].nodes
            j == emitted[e].node
            n == Len(nodes)
            v == emitted[e].vecs[r]
            k == IndexOf(nodes, j)
        IN  IF nodes[1].id = j.id
            THEN v = <<<<nodes[2].lat - j.lat, nodes[2].lng - j.lng>>>>
            ELSE IF nodes[n].id = j.id
            THEN v = <<<<nodes[n - 1].lat - j.lat, nodes[n - 1].lng - j.lng>>>>
            ELSE /\ Len(v) = 2
                 /\ v[1] = <<nodes[k + 1].lat - j.lat, nodes[k + 1].lng - j.lng>>
                 /\ v[2] = <<nodes[k - 1].lat - j.lat, nodes[k - 1].lng - j.lng>>

\* C10: no junction is emitted before every way is ingested and every road
\* has been through the accumulation, and no road's node sequence changes
\* from the start of the accumulation to the last emission.
C10_JunctionsAfterAccumulation ==
    [][/\ emitted' # emitted =>
            /\ pc = "junctions"
            /\ roads = readRoads(ways)
            /\ ri = Len(roads) + 1
            /\ Len(sections) = Len(roads)
       /\ pc \in {"buildXML", "junctions"} => roads' = roads]_vars

C10_Witness ==
    /\ pc = "written" /\ Len(roads) = 2 /\ Len(ways) = 2
    /\ Len(emitted) >= 2

(***************************************************************************)
(* find_parallel on its own: a call with a free-standing polyline.         *)
(***************************************************************************)
GridNodes ==
    {[id |-> lat * (MaxCoord + 1) + lng + 1, lat |-> lat, lng |-> lng] :
        lat \in 0..MaxCoord, lng \in 0..MaxCoord}

InitOffset ==
    /\ pc = "find_parallel"
    /\ arg \in [road : SeqsUpTo(GridNodes, MaxLen),
                width : {HalfMetres(lane_width) \div 2, HalfMetres(lane_width)},
                left : BOOLEAN]
    /\ ret = <<>>
    /\ ways = <<>> /\ roads = <<>> /\ ri = 0 /\ sections = <<>>
    /\ max_coord = FALSE /\ junction_keys = <<>> /\ junctions = <<>>
    /\ ji = 0 /\ emitted = <<>>

CallFindParallel ==
    /\ pc = "find_parallel"
    /\ ret' = find_parallel(arg.road, arg.width, arg.left)
    /\ pc' = "returned"
    /\ UNCHANGED <<ways, roads, ri, sections, max_coord, junction_keys,
                   junctions, ji, emitted, arg>>

NextOffset == CallFindParallel

SpecOffset == InitOffset /\ [][NextOffset]_vars

Nondegenerate(road) ==
    \A i \in 1..(Len(road) - 1) :
        <<road[i].lat, road[i].lng>> # <<road[i + 1].lat, road[i + 1].lng>>

\* C1: for a polyline of n >= 2 nodes with no two consecutive nodes
\* coinciding, find_parallel returns exactly n points, and the point at
\* position i is an offset of the input node at position i.
C1_SamePointCount ==
    (pc = "returned" /\ Len(arg.road) >= 2 /\ Nondegenerate(arg.road)) =>
        /\ Len(ret) = Len(arg.road)
        /\ \A i \in 1..Len(arg.road) :
              /\ ret[i].lat = arg.road[i].lat
              /\ ret[i].lng = arg.road[i].lng
              /\ ret[i].mag = arg.width

C1_Witness ==
    /\ pc = "returned"
    /\ Len(arg.road) = 3
    /\ Nondegenerate(arg.road)
    /\ Len(ret) = 3
    /\ ret[2].turn # <<>>

\* C8: at every interior point of a polyline, whatever the turning angle, the
\* offset magnitude is at most MaxMiterScale times the nominal distance.
C8_MiterCapped ==
    (pc = "returned" /\ Nondegenerate(arg.road)) =>
        \A i \in 2..(Len(ret) - 1) :
            \* an exact reversal divides by sin(angle) = 0 and is left out:
            \* already a turn short of it exceeds the cap
            Det(ret[i].turn[1], ret[i].turn[2]) # 0 =>
                MagnitudeWithin(ret[i], MaxMiterScale)

(***************************************************************************)
(* The lane layout on its own: one road through the body of the road loop. *)
(***************************************************************************)
LaneTags ==
    {[hasLanes |-> FALSE, lanes |-> 0]} \cup
    {[hasLanes |-> TRUE, lanes |-> n] : n \in (-MaxLanes)..MaxLanes}

InitLanes ==
    /\ pc = "laneSection"
    /\ \E nds \in {t \in SeqsUpTo(NodeIds, MaxLen) : NoRepeat(t)}, t \in LaneTags :
          arg = RoadOf([id |-> 1, highway |-> "residential", nds |-> nds,
                        hasLanes |-> t.hasLanes, lanes |-> t.lanes])
    /\ ret = <<>>
    /\ ways = <<>> /\ roads = <<>> /\ ri = 0 /\ sections = <<>>
    /\ max_coord = FALSE /\ junction_keys = <<>> /\ junctions = <<>>
    /\ ji = 0 /\ emitted = <<>>

BuildLaneSection ==
    /\ pc = "laneSection"
    /\ IF BuildRaises(arg)
       THEN pc' = "raised" /\ ret' = <<>>
       ELSE pc' = "built" /\ ret' = LaneSection(arg)
    /\ UNCHANGED <<ways, roads, ri, sections, max_coord, junction_keys,
                   junctions, ji, emitted, arg>>

NextLanes == BuildLaneSection

SpecLanes == InitLanes /\ [][NextLanes]_vars

\* C3: a declared count >= 0 becomes 1 when it is 0, count - 1 when it is odd
\* and greater than 1, and is unchanged otherwise; 0, 1, 2, 3, 4, 5 give
\* 1, 1, 2, 2, 4, 4; a road with no declared count gets 1.
C3_Normalization ==
    pc = "built" =>
        /\ ~arg.hasLanes => ret.num_lanes = 1
        /\ (arg.hasLanes /\ arg.lanes >= 0) =>
              /\ arg.lanes = 0 => ret.num_lanes = 1
              /\ (arg.lanes > 1 /\ \E k \in 1..arg.lanes : arg.lanes = 2 * k + 1)
                    => ret.num_lanes = arg.lanes - 1
              /\ (arg.lanes = 1 \/ \E k \in 1..arg.lanes : arg.lanes = 2 * k)
                    => ret.num_lanes = arg.lanes
              /\ arg.lanes \in 0..5 =>
                    ret.num_lanes = <<1, 1, 2, 2, 4, 4>>[arg.lanes + 1]

C3_Witness ==
    pc = "built" /\ arg.hasLanes /\ arg.lanes = 5 /\ ret.num_lanes = 4

\* C4: a road of effective count > 1 has count/2 right and count/2 left
\* lanes; right lane i has id -(i+1), direction forward, centerline at
\* i*laneWidth + laneWidth/2 and border at (i+1)*laneWidth to the right; left
\* lane i has id i+1, direction backward and the same offsets to the left;
\* the reference centerline is the node sequence unchanged.
C4_MultiLaneLayout ==
    (pc = "built" /\ ret.num_lanes > 1) =>
        LET half == ret.num_lanes \div 2
            w == HalfMetres(lane_width)
        IN  /\ 2 * half = ret.num_lanes
            /\ Len(ret.right) = half
            /\ ret.hasLeft /\ Len(ret.left) = half
            /\ ret.center = NodePoints(arg.nodes)
            /\ \A i \in 0..(half - 1) :
                  /\ ret.right[i + 1].id = -(i + 1)
                  /\ ret.right[i + 1].direction = "forward"
                  /\ ret.right[i + 1].centerLine =
                        find_parallel(arg.nodes, i * w + w \div 2, FALSE)
                  /\ ret.right[i + 1].border =
                        find_parallel(arg.nodes, (i + 1) * w, FALSE)
                  /\ ret.left[i + 1].id = i + 1
                  /\ ret.left[i + 1].direction = "backward"
                  /\ ret.left[i + 1].centerLine =
                        find_parallel(arg.nodes, i * w + w \div 2, TRUE)
                  /\ ret.left[i + 1].border =
                        find_parallel(arg.nodes, (i + 1) * w, TRUE)

C4_Witness ==
    /\ pc = "built" /\ ret.num_lanes = 4 /\ Len(arg.nodes) = 3
    /\ Len(ret.right) = 2 /\ Len(ret.left) = 2
    /\ ret.right[2].border[2].mag = HalfMetres(2 * lane_width)

\* C5 as claimed: a road of effective count 1 has one bidirectional right
\* lane and no left lane; the lane's centerline is the node sequence, its
\* border the road offset by laneWidth to the right, and the reference
\* centerline the road offset by laneWidth/2 to the left.
C5_SingleLaneAsClaimed ==
    (pc = "built" /\ ret.num_lanes = 1) =>
        /\ Len(ret.right) = 1 /\ ~ret.hasLeft /\ ret.left = <<>>
        /\ ret.right[1].direction = "bidirection"
        /\ ret.right[1].centerLine = NodePoints(arg.nodes)
        /\ ret.right[1].border =
              find_parallel(arg.nodes, HalfMetres(lane_width), FALSE)
        /\ ret.center = find_parallel(arg.nodes, HalfMetres(lane_width) \div 2, TRUE)

\* C5 amended: as claimed, except that the right lane's border is the road
\* offset by laneWidth/2 to the right; it is the section's right boundary
\* that is the road offset by laneWidth to the right.
C5_SingleLaneLayout ==
    (pc = "built" /\ ret.num_lanes = 1) =>
        /\ Len(ret.right) = 1 /\ ~ret.hasLeft /\ ret.left = <<>>
        /\ ret.right[1].direction = "bidirection"
        /\ ret.right[1].centerLine = NodePoints(arg.nodes)
        /\ ret.right[1].border =
              find_parallel(arg.nodes, HalfMetres(lane_width) \div 2, FALSE)
        /\ ret.rightBoundary =
              find_parallel(arg.nodes, HalfMetres(lane_width), FALSE)
        /\ ret.center = find_parallel(arg.nodes, HalfMetres(lane_width) \div 2, TRUE)

C5_Witness ==
    /\ pc = "built" /\ ret.num_lanes = 1 /\ Len(arg.nodes) = 3
    /\ Len(ret.right) = 1
    /\ ret.right[1].border[1].mag = HalfMetres(lane_width) \div 2

\* C7: a negative declared lane count is normalized to 1, so the road gets
\* the lane section of a single-lane road: one bidirectional right lane and
\* no left lane.
C7_NegativeCountBecomesOne ==
    (pc = "built" /\ arg.hasLanes /\ arg.lanes < 0) =>
        /\ ret.num_lanes = 1
        /\ Len(ret.right) = 1
        /\ ret.right[1].direction = "bidirection"
        /\ ~ret.hasLeft /\ ret.left = <<>>

====
